---- MODULE Spec2Model ----
(***************************************************************************)
(* Course-activity backend: the report pipeline (ReportListView,           *)
(* ReportDownloadView, the generate_activity_report worker task) and the   *)
(* activity recorder (ActivityLogView), over the relational store.         *)
(*                                                                         *)
(* Conventions.  A user is identified by its username.  A null foreign key *)
(* is NoUser / NoCourse, an empty FileField is NoFile.  A request string   *)
(* that is parsed (a date) is a sequence of one-character strings, so that *)
(* parsing is computed; "" and <<>> stand for a missing (None or empty)    *)
(* field, 0 for a missing id.  Every action records the request it served  *)
(* and the response it gave in `last`.                                     *)
(***************************************************************************)
EXTENDS Integers, Sequences, FiniteSets, TLC

VARIABLES
    users,          \* auth_user rows (usernames)
    role,           \* Profile.role of each user
    courses,        \* Course rows: id -> [course_code, course_title, instructor]
    logs,           \* ActivityLog rows: id -> [instructor, course, activity_type, log_date, details]
    reports,        \* Report rows: id -> [generated_by, report_type, status, start_date, end_date, generated_file]
    files,          \* media storage under reports/: file name -> rows of the sheet
    syslog,         \* SystemEventLog rows, oldest first
    workers,        \* Celery worker processes: each idle or inside one run of generate_activity_report
    nextReportId,   \* the Report table's AUTOINCREMENT sequence
    nextLogId,      \* the ActivityLog table's AUTOINCREMENT sequence
    nextCourseId,   \* the Course table's AUTOINCREMENT sequence
    today,          \* the calendar date of timezone.now()
    inflight,       \* web workers: each idle or between the username check and the create step of a request
    last            \* the last request served and its response

vars == <<users, role, courses, logs, reports, files, syslog, workers,
          nextReportId, nextLogId, nextCourseId, today, inflight, last>>

----------------------------------------------------------------------------
(* Bounds of the model *)

MaxReports == 2     \* Report ids handed out
MaxLogs == 2        \* ActivityLog ids handed out
MaxDays == 2        \* days the clock may advance

----------------------------------------------------------------------------
(* Enumerations *)

RoleEnum == {"ADMIN", "INSTRUCTOR"}

ActivityTypeEnum ==
    {"MDB_REPLY", "TICKET_RESPONSE", "ASSIGNMENT_UPLOAD", "ASSIGNMENT_MARKING",
     "GDB_MARKING", "SESSION_TRACKING", "EMAIL_RESPONSE"}

ReportTypeEnum == {"ACTIVITY_SUMMARY", "PERFORMANCE_ANALYSIS", "SYSTEM_USAGE"}

\* What the names of ReportStatusEnum would be if it declared PROCESSING.
ReportStatusEnumWithProcessing == {"PENDING", "PROCESSING", "COMPLETED", "FAILED"}

\* The member names of ReportStatusEnum.  It declares no PROCESSING member.
ReportStatusEnum == {"PENDING", "COMPLETED", "FAILED"}

\* Evaluating ReportStatusEnum.<name>.name with every name declared: no
\* lookup raises.
EveryMemberDeclared(name) == FALSE

\* Evaluating ReportStatusEnum.<name>.name raises AttributeError for a name
\* the enumeration does not declare.
RaisesAttributeError(name) == name \notin ReportStatusEnum

\* The worker processes consuming the task queue: a single consumer.
Workers == {"w1"}

NoUser == "none"
NoCourse == 0
NoFile == <<>>

----------------------------------------------------------------------------
(* Calendar dates: <<year, month, day>> *)

ValueError == <<>>

DigitVal(c) ==
    CASE c = "0" -> 0 [] c = "1" -> 1 [] c = "2" -> 2 [] c = "3" -> 3
      [] c = "4" -> 4 [] c = "5" -> 5 [] c = "6" -> 6 [] c = "7" -> 7
      [] c = "8" -> 8 [] c = "9" -> 9 [] OTHER -> -1

IsDigit(c) == DigitVal(c) >= 0

IsLeap(y) == (y % 4 = 0 /\ y % 100 # 0) \/ y % 400 = 0

DaysInMonth(y, m) ==
    IF m = 2 THEN (IF IsLeap(y) THEN 29 ELSE 28)
    ELSE IF m \in {4, 6, 9, 11} THEN 30 ELSE 31

\* date.fromisoformat without the check of the day against the month.
date_fromisoformat_any_day(s) ==
    IF /\ Len(s) = 10
       /\ s[5] = "-" /\ s[8] = "-"
       /\ \A i \in {1, 2, 3, 4, 6, 7, 9, 10} : IsDigit(s[i])
    THEN <<DigitVal(s[1]) * 1000 + DigitVal(s[2]) * 100
             + DigitVal(s[3]) * 10 + DigitVal(s[4]),
           DigitVal(s[6]) * 10 + DigitVal(s[7]),
           DigitVal(s[9]) * 10 + DigitVal(s[10])>>
    ELSE ValueError

\* date.fromisoformat on a string: YYYY-MM-DD with a real calendar day, or
\* ValueError.
date_fromisoformat(s) ==
    IF /\ Len(s) = 10
       /\ s[5] = "-" /\ s[8] = "-"
       /\ \A i \in {1, 2, 3, 4, 6, 7, 9, 10} : IsDigit(s[i])
    THEN LET y == DigitVal(s[1]) * 1000 + DigitVal(s[2]) * 100
                  + DigitVal(s[3]) * 10 + DigitVal(s[4])
             m == DigitVal(s[6]) * 10 + DigitVal(s[7])
             d == DigitVal(s[9]) * 10 + DigitVal(s[10])
         IN IF y >= 1 /\ m \in 1..12 /\ d >= 1 /\ d <= DaysInMonth(y, m)
            THEN <<y, m, d>> ELSE ValueError
    ELSE ValueError

DateLe(a, b) ==
    \/ a[1] < b[1]
    \/ a[1] = b[1] /\ a[2] < b[2]
    \/ a[1] = b[1] /\ a[2] = b[2] /\ a[3] <= b[3]

NextDay(a) ==
    IF a[3] < DaysInMonth(a[1], a[2]) THEN <<a[1], a[2], a[3] + 1>>
    ELSE IF a[2] < 12 THEN <<a[1], a[2] + 1, 1>>
    ELSE <<a[1] + 1, 1, 1>>

----------------------------------------------------------------------------
(* The store *)

EmptyTable == [x \in {} |-> 0]

\* Model.save() of a Report instance: UPDATE of every field by primary key,
\* INSERT when no row has that key.
SaveReport(rs, id, rep) ==
    [x \in DOMAIN rs \cup {id} |-> IF x = id THEN rep ELSE rs[x]]

\* Model.delete() of a Report row: removes every row but this one.
DeleteAllButReportRow(rs, id) == [x \in DOMAIN rs \cap {id} |-> rs[x]]

\* Model.delete() of a Report row.
DeleteReportRow(rs, id) == [x \in DOMAIN rs \ {id} |-> rs[x]]

\* FieldFile.delete(save=False): the storage forgets the file.
DeleteFile(fs, name) == [x \in DOMAIN fs \ {name} |-> fs[x]]

\* Storage.get_available_name: the wanted name report_<id>_<type>.xlsx, made
\* unique when taken.
AvailableName(fs, id) ==
    LET k == CHOOSE n \in 1..(Cardinality(DOMAIN fs) + 1) :
                 /\ <<id, n>> \notin DOMAIN fs
                 /\ \A j \in 1..(n - 1) : <<id, j>> \in DOMAIN fs
    IN <<id, k>>

\* ActivityLog.objects.filter(log_date__date__range=[start, end]): both ends
\* inclusive.
LogsInRange(ls, start, end) ==
    {i \in DOMAIN ls : DateLe(start, ls[i].log_date) /\ DateLe(ls[i].log_date, end)}

\* if instructor_id and instructor_id != 'ALL': filter(instructor_id=...)
FilterInstructor(ls, ids, instructor_id) ==
    IF instructor_id # "" /\ instructor_id # "ALL"
    THEN {i \in ids : ls[i].instructor = instructor_id}
    ELSE ids

\* .values('instructor__username', 'course__course_code', 'activity_type',
\* 'log_date', 'details'): one row per matched log.
ReportRows(ls, cs, ids) ==
    [i \in ids |->
        [instructor__username |-> ls[i].instructor,
         course__course_code |-> IF ls[i].course \in DOMAIN cs
                                 THEN cs[ls[i].course].course_code ELSE "",
         activity_type |-> ls[i].activity_type,
         log_date |-> ls[i].log_date,
         details |-> ls[i].details]]

----------------------------------------------------------------------------
(* Permissions *)

\* request.user.profile.role read as ADMIN whoever the user is.
ProfileRoleAlwaysAdmin(u) == "ADMIN"

\* request.user.profile.role
ProfileRole(u) == role[u]

\* IsAdminUser.has_permission for an authenticated caller.
IsAdminUser(u) == u \in users /\ ProfileRole(u) = "ADMIN"

\* IsInstructorUser.has_permission for an authenticated caller.
IsInstructorUser(u) == u \in users /\ ProfileRole(u) = "INSTRUCTOR"

----------------------------------------------------------------------------
(* Requests *)

\* Date strings a client may send: two calendar dates, a string that has the
\* right shape and names no calendar day, and the missing field.
Str_2024_01_31 == <<"2", "0", "2", "4", "-", "0", "1", "-", "3", "1">>
Str_2024_02_01 == <<"2", "0", "2", "4", "-", "0", "2", "-", "0", "1">>
Str_2024_02_30 == <<"2", "0", "2", "4", "-", "0", "2", "-", "3", "0">>
Missing == <<>>

DateStrings == {Missing, Str_2024_02_30, Str_2024_01_31, Str_2024_02_01}

\* A body of POST /reports/ that passes every check of the handler.
ValidRequest ==
    [report_type |-> "SYSTEM_USAGE", start_date |-> Str_2024_01_31,
     end_date |-> Str_2024_02_01, instructor_id |-> ""]

\* Bodies of POST /reports/: the valid one with one field changed to each
\* value a client may send, and the one whose range is empty.
SubmitRequests ==
    {[ValidRequest EXCEPT !.start_date = s] : s \in DateStrings}
    \cup {[ValidRequest EXCEPT !.end_date = e] : e \in DateStrings}
    \cup {[ValidRequest EXCEPT !.report_type = t] :
            t \in {"", "ACTIVITY_SUMMARY", "Activity Summary"}}
    \cup {[ValidRequest EXCEPT !.instructor_id = i] : i \in {"ALL", "i1"}}
    \cup {[ValidRequest EXCEPT !.start_date = Str_2024_02_01,
                               !.end_date = Str_2024_01_31]}

----------------------------------------------------------------------------
(* Initial store: two admins, two instructors, one course each and one      *)
(* course whose instructor was deleted; the activity logs recorded so far.  *)

Users0 == {"a1", "a2", "i1", "i2"}

Role0 == [u \in Users0 |-> IF u \in {"a1", "a2"} THEN "ADMIN" ELSE "INSTRUCTOR"]

Courses0 ==
    (1 :> [course_code |-> "CS101", course_title |-> "T1", instructor |-> "i1"])
    @@ (2 :> [course_code |-> "CS102", course_title |-> "T2", instructor |-> "i2"])
    @@ (3 :> [course_code |-> "CS103", course_title |-> "T3", instructor |-> NoUser])

Day0 == <<2024, 1, 31>>

Log_i1 == [instructor |-> "i1", course |-> 1, activity_type |-> "MDB_REPLY",
           log_date |-> Day0, details |-> [custom_log_date |-> ""]]
Log_i2 == [instructor |-> "i2", course |-> 2, activity_type |-> "GDB_MARKING",
           log_date |-> Day0, details |-> [custom_log_date |-> ""]]

\* The log table after each instructor recorded one activity on Day0.
Logs0 == (1 :> Log_i1) @@ (2 :> Log_i2)

Idle == [pc |-> "idle"]

\* The web worker threads that serve requests at the same time.
Handlers == {"h1", "h2"}

InitStore ==
    /\ inflight = [h \in Handlers |-> Idle]
    /\ users = Users0
    /\ role = Role0
    /\ courses = Courses0
    /\ nextCourseId = 4
    /\ reports = EmptyTable
    /\ files = EmptyTable
    /\ syslog = <<>>
    /\ workers = [w \in Workers |-> Idle]
    /\ nextReportId = 1
    /\ last = [op |-> "init"]

Init ==
    /\ InitStore
    /\ logs = Logs0
    /\ nextLogId = Cardinality(DOMAIN Logs0) + 1
    /\ today = NextDay(Day0)

----------------------------------------------------------------------------
(* Report pipeline *)

ActivityStore == <<logs, nextLogId, today>>
AccountStore == <<users, role, courses, nextCourseId, inflight>>

\* The queued-worker variant of submit: a validated request is stored as a
\* Report in the model's default status and handed to the worker task.
submit_queued(u, report_type, start_date_str, end_date_str) ==
    LET start_date == date_fromisoformat(start_date_str)
        end_date == date_fromisoformat(end_date_str)
    IN /\ IsAdminUser(u)
       /\ report_type \in ReportTypeEnum
       /\ start_date # ValueError /\ end_date # ValueError
       /\ DateLe(start_date, end_date)
       /\ nextReportId <= MaxReports
       /\ reports' = SaveReport(reports, nextReportId,
                        [generated_by |-> u, report_type |-> report_type,
                         status |-> "PENDING", start_date |-> start_date,
                         end_date |-> end_date, generated_file |-> NoFile])
       /\ nextReportId' = nextReportId + 1
       /\ last' = [op |-> "submit_queued", caller |-> u, id |-> nextReportId]
       /\ UNCHANGED <<files, syslog, workers, ActivityStore, AccountStore>>

\* if not all([report_type, start_date_str, end_date_str])
AllFieldsGiven(req) ==
    req.report_type # "" /\ req.start_date # Missing /\ req.end_date # Missing

\* ReportListView.post
ReportListView_post(u, req) ==
    LET start_date == date_fromisoformat(req.start_date)
        end_date == date_fromisoformat(req.end_date)
        id == nextReportId
        report == [generated_by |-> u, report_type |-> req.report_type,
                   status |-> "PROCESSING", start_date |-> start_date,
                   end_date |-> end_date, generated_file |-> NoFile]
        event == [actor |-> u, event_type |-> "REPORT_GENERATED",
                  details |-> [start_date |-> start_date,
                               report_type |-> req.report_type,
                               end_date |-> end_date]]
        matched == FilterInstructor(logs, LogsInRange(logs, start_date, end_date),
                                    req.instructor_id)
        file_name == AvailableName(files, id)
        Respond(code, created) ==
            last' = [op |-> "submit", caller |-> u, req |-> req, code |-> code,
                     id |-> created]
    IN
    IF ~IsAdminUser(u)
    THEN \* refused before the handler runs: the body is never read
         /\ last' = [op |-> "submit", caller |-> u, code |-> 403, id |-> 0]
         /\ UNCHANGED <<reports, files, syslog, nextReportId>>
    ELSE IF ~AllFieldsGiven(req)
    THEN Respond(400, 0) /\ UNCHANGED <<reports, files, syslog, nextReportId>>
    ELSE IF start_date = ValueError \/ end_date = ValueError
    THEN Respond(400, 0) /\ UNCHANGED <<reports, files, syslog, nextReportId>>
    ELSE IF RaisesAttributeError("PROCESSING")
    THEN \* line 255 raises outside any try: nothing was written yet
         Respond(500, 0) /\ UNCHANGED <<reports, files, syslog, nextReportId>>
    ELSE /\ nextReportId <= MaxReports
         /\ nextReportId' = nextReportId + 1
         /\ syslog' = Append(syslog, event)
         /\ IF matched = {}
            THEN /\ reports' = SaveReport(reports, id,
                                   [report EXCEPT !.status = "FAILED"])
                 /\ files' = files
                 /\ Respond(500, id)
            ELSE /\ files' = files @@ (file_name :> ReportRows(logs, courses, matched))
                 /\ reports' = SaveReport(reports, id,
                                   [report EXCEPT !.status = "COMPLETED",
                                                  !.generated_file = file_name])
                 /\ Respond(201, id)

Submit ==
    \E u \in users, req \in SubmitRequests :
        /\ ReportListView_post(u, req)
        /\ UNCHANGED <<workers, ActivityStore, AccountStore>>

\* generate_activity_report, line 14: Report.objects.get(id=report_id), and
\* the assignment of line 15 when it raises.
generate_activity_report_get(w, report_id) ==
    /\ workers[w] = Idle
    /\ IF report_id \notin DOMAIN reports
       THEN \* DoesNotExist is caught, 'report' is not bound: the run is over
            /\ workers' = workers
            /\ last' = [op |-> "task", id |-> report_id, step |-> "norow"]
       ELSE /\ workers' = [workers EXCEPT ![w] =
                    [pc |-> IF RaisesAttributeError("PROCESSING")
                            THEN "except" ELSE "mark",
                     id |-> report_id, report |-> reports[report_id],
                     rows |-> EmptyTable]]
            /\ last' = [op |-> "task", id |-> report_id, step |-> "get"]
    /\ UNCHANGED <<reports, files, syslog, nextReportId, ActivityStore, AccountStore>>

\* generate_activity_report after line 14, one store access per step.
generate_activity_report_run(w) ==
    LET run == workers[w]
        Goto(pc, report, rows) ==
            workers' = [workers EXCEPT ![w] =
                [pc |-> pc, id |-> run.id, report |-> report, rows |-> rows]]
        Step(name) == last' = [op |-> "task", id |-> run.id, step |-> name,
                               loaded |-> run.report.status]
    IN
    /\ run # Idle
    /\ CASE run.pc = "mark" ->
            \* lines 15-16
            LET report == [run.report EXCEPT !.status = "PROCESSING"]
            IN /\ reports' = SaveReport(reports, run.id, report)
               /\ Goto("query", report, run.rows)
               /\ Step("mark")
               /\ UNCHANGED files
         [] run.pc = "query" ->
            \* lines 19-24
            LET matched == LogsInRange(logs, run.report.start_date,
                                       run.report.end_date)
            IN /\ IF matched = {}
                  THEN Goto("except", run.report, run.rows)
                  ELSE Goto("file", run.report, ReportRows(logs, courses, matched))
               /\ Step("query")
               /\ UNCHANGED <<reports, files>>
         [] run.pc = "file" ->
            \* lines 35-36: FieldFile.save stores the file and saves the row
            LET file_name == AvailableName(files, run.id)
                report == [run.report EXCEPT !.generated_file = file_name]
            IN /\ files' = files @@ (file_name :> run.rows)
               /\ reports' = SaveReport(reports, run.id, report)
               /\ Goto("complete", report, run.rows)
               /\ Step("file")
         [] run.pc = "complete" ->
            \* lines 39-40
            /\ reports' = SaveReport(reports, run.id,
                              [run.report EXCEPT !.status = "COMPLETED"])
            /\ workers' = [workers EXCEPT ![w] = Idle]
            /\ Step("complete")
            /\ UNCHANGED files
         [] run.pc = "except" ->
            \* lines 42-46
            /\ reports' = SaveReport(reports, run.id,
                              [run.report EXCEPT !.status = "FAILED"])
            /\ workers' = [workers EXCEPT ![w] = Idle]
            /\ Step("except")
            /\ UNCHANGED files
    /\ UNCHANGED <<syslog, nextReportId, ActivityStore, AccountStore>>

TaskGet == \E w \in Workers, report_id \in 1..MaxReports :
               generate_activity_report_get(w, report_id)

TaskRun == \E w \in Workers : generate_activity_report_run(w)

\* ReportDownloadView.get with FAILED and unfinished reports confused.
ReportDownloadView_get_swapped(rs, fs, pk) ==
    IF pk \notin DOMAIN rs
    THEN [code |-> 404, message |-> "Not Found", artifact |-> NoFile]
    ELSE IF rs[pk].status = "COMPLETED" /\ rs[pk].generated_file # NoFile
    THEN [code |-> 200, message |-> "", artifact |-> rs[pk].generated_file]
    ELSE IF rs[pk].status # "FAILED"
    THEN [code |-> 400, message |-> "Report generation failed.", artifact |-> NoFile]
    ELSE [code |-> 400, message |-> "Report is still being processed.",
          artifact |-> NoFile]

\* ReportDownloadView.get: the response for report pk.
ReportDownloadView_get(rs, fs, pk) ==
    IF pk \notin DOMAIN rs
    THEN [code |-> 404, message |-> "Not Found", artifact |-> NoFile]
    ELSE IF rs[pk].status = "COMPLETED" /\ rs[pk].generated_file # NoFile
    THEN IF rs[pk].generated_file \in DOMAIN fs
         THEN [code |-> 200, message |-> "", artifact |-> rs[pk].generated_file]
         ELSE \* FieldFile.open raises FileNotFoundError
              [code |-> 500, message |-> "Server Error", artifact |-> NoFile]
    ELSE IF rs[pk].status = "FAILED"
    THEN [code |-> 400, message |-> "Report generation failed.", artifact |-> NoFile]
    ELSE [code |-> 400, message |-> "Report is still being processed.",
          artifact |-> NoFile]

\* GET /reports/<pk>/download/ (AllowAny: no caller is looked at)
Download ==
    \E pk \in 1..MaxReports :
        /\ last' = [op |-> "download", id |-> pk,
                    response |-> ReportDownloadView_get(reports, files, pk)]
        /\ UNCHANGED <<reports, files, syslog, workers, nextReportId,
                       ActivityStore, AccountStore>>

\* ReportListView.delete; report_id 0 stands for a missing id
ReportListView_delete(u, report_id) ==
    LET Respond(code) ==
            last' = [op |-> "delete", caller |-> u, id |-> report_id, code |-> code]
    IN
    IF ~IsAdminUser(u)
    THEN Respond(403) /\ UNCHANGED <<reports, files>>
    ELSE IF report_id = 0
    THEN Respond(400) /\ UNCHANGED <<reports, files>>
    ELSE IF report_id \notin DOMAIN reports
    THEN Respond(404) /\ UNCHANGED <<reports, files>>
    ELSE IF ProfileRole(u) # "ADMIN" /\ reports[report_id].generated_by # u
    THEN Respond(403) /\ UNCHANGED <<reports, files>>
    ELSE /\ files' = IF reports[report_id].generated_file # NoFile
                     THEN DeleteFile(files, reports[report_id].generated_file)
                     ELSE files
         /\ reports' = DeleteReportRow(reports, report_id)
         /\ Respond(200)

Delete ==
    \E u \in users, report_id \in 0..MaxReports :
        /\ ReportListView_delete(u, report_id)
        /\ UNCHANGED <<syslog, workers, nextReportId, ActivityStore, AccountStore>>

\* Requests a client sends to the queued variant.
SubmitQueued ==
    \E u \in users :
        submit_queued(u, "ACTIVITY_SUMMARY", Str_2024_01_31, Str_2024_02_01)

Next == Submit \/ SubmitQueued \/ TaskGet \/ TaskRun \/ Download \/ Delete

Spec == Init /\ [][Next]_vars

----------------------------------------------------------------------------
(* Activity recorder *)

ReportStore == <<reports, files, syslog, workers, nextReportId>>

\* Course.objects.get(id=course_id) without the instructor condition.
CourseExists(cs, course_id, u) == course_id \in DOMAIN cs

\* Course.objects.get(id=course_id, instructor=request.user) finds a row.
CourseTaughtBy(cs, course_id, u) ==
    course_id \in DOMAIN cs /\ cs[course_id].instructor = u

\* ActivityLogView.post; course_id 0 and log_date "" stand for missing fields
ActivityLogView_post(u, req) ==
    LET log == [instructor |-> u, course |-> req.course_id,
                activity_type |-> req.activity_type, log_date |-> today,
                details |-> [custom_log_date |-> req.log_date]]
        Respond(code, created) ==
            last' = [op |-> "record", caller |-> u, req |-> req, code |-> code,
                     id |-> created]
    IN
    IF ~IsInstructorUser(u)
    THEN \* refused before the handler runs: the body is never read
         /\ last' = [op |-> "record", caller |-> u, code |-> 403, id |-> 0]
         /\ UNCHANGED <<logs, nextLogId>>
    ELSE IF req.activity_type \notin ActivityTypeEnum
    THEN Respond(400, 0) /\ UNCHANGED <<logs, nextLogId>>
    ELSE IF req.course_id = 0
    THEN Respond(400, 0) /\ UNCHANGED <<logs, nextLogId>>
    ELSE IF ~CourseTaughtBy(courses, req.course_id, u)
    THEN Respond(404, 0) /\ UNCHANGED <<logs, nextLogId>>
    ELSE /\ nextLogId <= MaxLogs
         /\ logs' = logs @@ (nextLogId :> log)
         /\ nextLogId' = nextLogId + 1
         /\ Respond(201, nextLogId)

\* A well-formed body of POST /activities/ for instructor i1.
ValidRecord == [activity_type |-> "MDB_REPLY", course_id |-> 1, log_date |-> ""]

\* Bodies of POST /activities/: ValidRecord with one field varied: another
\* category and a display name that is no member name; no course id, every
\* other course id and an unused one; a custom log_date.
RecordRequests ==
    {[ValidRecord EXCEPT !.activity_type = t] :
        t \in {"MDB_REPLY", "GDB_MARKING", "MDB Replies"}}
    \cup {[ValidRecord EXCEPT !.course_id = c] :
        c \in 0..(Cardinality(DOMAIN Courses0) + 1)}
    \cup {[ValidRecord EXCEPT !.log_date = "2024-01-01"]}

Record ==
    \E u \in users, req \in RecordRequests :
        /\ ActivityLogView_post(u, req)
        /\ UNCHANGED <<today, ReportStore, AccountStore>>

RECURSIVE AddDays(_, _)
AddDays(d, n) == IF n = 0 THEN d ELSE AddDays(NextDay(d), n - 1)

\* Midnight passes: timezone.now().date() moves on.
Tick ==
    /\ today # AddDays(Day0, MaxDays)
    /\ today' = NextDay(today)
    /\ last' = [op |-> "tick"]
    /\ UNCHANGED <<logs, nextLogId, ReportStore, AccountStore>>

InitActivity ==
    /\ InitStore
    /\ logs = EmptyTable
    /\ nextLogId = 1
    /\ today = Day0

NextActivity == Record \/ Tick

SpecActivity == InitActivity /\ [][NextActivity]_vars

----------------------------------------------------------------------------
(* Properties of the report pipeline *)

TerminalStatuses == {"COMPLETED", "FAILED"}

C2_LifecycleTransitionsOnly ==
    [][/\ \A r \in DOMAIN reports' \ DOMAIN reports :
              reports'[r].status \in {"PENDING", "PROCESSING"}
       /\ \A r \in DOMAIN reports' :
              reports'[r].status \in {"PENDING", "PROCESSING", "COMPLETED", "FAILED"}
       /\ \A r \in DOMAIN reports \cap DOMAIN reports' :
              reports'[r].status # reports[r].status
                  => <<reports[r].status, reports'[r].status>> \in
                         {<<"PENDING", "PROCESSING">>,
                          <<"PROCESSING", "COMPLETED">>,
                          <<"PROCESSING", "FAILED">>}]_vars

\* A Report has a non-empty artifact attached.
HasArtifact(r) ==
    /\ reports[r].generated_file # NoFile
    /\ reports[r].generated_file \in DOMAIN files
    /\ DOMAIN files[reports[r].generated_file] # {}

\* The submit request answered last was made by an admin, names a known
\* type and a range start <= end of calendar dates.
LastSubmitIsValid ==
    /\ last.op = "submit" /\ role[last.caller] = "ADMIN"
    /\ last.req.report_type \in ReportTypeEnum
    /\ last.req.start_date \in {Str_2024_01_31, Str_2024_02_01}
    /\ last.req.end_date \in {Str_2024_01_31, Str_2024_02_01}
    /\ DateLe(date_fromisoformat(last.req.start_date),
              date_fromisoformat(last.req.end_date))

\* The logs the last submit request selects.
LastSubmitMatches ==
    FilterInstructor(logs,
        LogsInRange(logs, date_fromisoformat(last.req.start_date),
                          date_fromisoformat(last.req.end_date)),
        last.req.instructor_id)

\* C3: a valid submission that matches at least one ActivityLog leaves its
\* Report COMPLETED with a non-empty artifact, on the synchronous path and
\* when a run of the worker task for the Report has finished.
C3_ValidSubmitCompletes ==
    /\ (LastSubmitIsValid /\ LastSubmitMatches # {})
         => (/\ last.id \in DOMAIN reports
             /\ reports[last.id].status = "COMPLETED"
             /\ HasArtifact(last.id))
    /\ (/\ last.op = "task" /\ last.step \in {"complete", "except"}
        /\ last.id \in DOMAIN reports
        /\ LogsInRange(logs, reports[last.id].start_date,
                             reports[last.id].end_date) # {})
         => (/\ reports[last.id].status = "COMPLETED"
             /\ HasArtifact(last.id))

\* The last submit request was made by an admin, gives every field and two
\* calendar dates, and selects no ActivityLog.
LastSubmitIsEmpty ==
    /\ last.op = "submit" /\ role[last.caller] = "ADMIN"
    /\ last.req.report_type # ""
    /\ last.req.start_date \in {Str_2024_01_31, Str_2024_02_01}
    /\ last.req.end_date \in {Str_2024_01_31, Str_2024_02_01}
    /\ LastSubmitMatches = {}

\* C4: a submission with parseable dates that matches no ActivityLog (an
\* empty range included) creates a Report, which is FAILED and has no
\* artifact.
C4_EmptySubmitFails ==
    LastSubmitIsEmpty
        => (/\ last.id \in DOMAIN reports
            /\ reports[last.id].status = "FAILED"
            /\ reports[last.id].generated_file = NoFile)

\* C5: a submission whose report_type is not in ReportTypeEnum is answered
\* 400 and creates no Report; every stored Report's type is in the
\* enumeration.
C5_UnknownTypeRejected ==
    /\ (/\ last.op = "submit" /\ role[last.caller] = "ADMIN"
        /\ last.req.report_type \notin ReportTypeEnum)
         => (last.code = 400 /\ last.id = 0)
    /\ \A r \in DOMAIN reports : reports[r].report_type \in ReportTypeEnum

\* C6: a submission with a missing field, or with a start_date or end_date
\* string that is no calendar date, is answered 400 and writes nothing: no
\* Report, no SystemEventLog entry, no file.
C6_MalformedSubmitRejected ==
    [][(/\ last'.op = "submit" /\ role[last'.caller] = "ADMIN"
        /\ \/ last'.req.report_type = ""
           \/ last'.req.start_date \in {Missing, Str_2024_02_30}
           \/ last'.req.end_date \in {Missing, Str_2024_02_30})
         => (/\ last'.code = 400
             /\ reports' = reports /\ syslog' = syslog /\ files' = files
             /\ nextReportId' = nextReportId)]_vars

\* C6 witness: an admin's submission whose start_date is 2024-02-30 was
\* answered 400.
C6_Witness ==
    /\ last.op = "submit" /\ role[last.caller] = "ADMIN"
    /\ last.req.start_date = Str_2024_02_30
    /\ last.code = 400

\* C7: download answers with the artifact only for a COMPLETED Report that
\* has one, with "generation failed" for a FAILED Report, with "still being
\* processed" for a PENDING or PROCESSING Report or a COMPLETED one without
\* artifact, with 404 for an unknown id, and changes no Report and no file.
C7_DownloadByStatus ==
    [][last'.op = "download" =>
        LET pk == last'.id
            resp == last'.response
        IN /\ reports' = reports /\ files' = files
           /\ (resp.code = 200)
                => (/\ pk \in DOMAIN reports
                    /\ reports[pk].status = "COMPLETED"
                    /\ reports[pk].generated_file # NoFile
                    /\ resp.artifact = reports[pk].generated_file)
           /\ (resp.artifact # NoFile) => (resp.code = 200)
           /\ (pk \in DOMAIN reports /\ reports[pk].status = "FAILED")
                => (/\ resp.code = 400
                    /\ resp.message = "Report generation failed.")
           /\ (/\ pk \in DOMAIN reports
               /\ \/ reports[pk].status \in {"PENDING", "PROCESSING"}
                  \/ /\ reports[pk].status = "COMPLETED"
                     /\ reports[pk].generated_file = NoFile)
                => (/\ resp.code = 400
                    /\ resp.message = "Report is still being processed.")
           /\ (pk \notin DOMAIN reports) => (resp.code = 404)]_vars

\* C7 witness: the download of a FAILED Report was answered "generation
\* failed".
C7_Witness ==
    /\ last.op = "download"
    /\ last.id \in DOMAIN reports
    /\ reports[last.id].status = "FAILED"
    /\ last.response.message = "Report generation failed."

----------------------------------------------------------------------------
(* Properties of the activity recorder *)

\* The course named by a record request is missing, does not exist, or is
\* not taught by the caller.
NotOwnCourse(u, course_id) ==
    \/ course_id = 0
    \/ course_id \notin DOMAIN courses
    \/ courses[course_id].instructor # u

\* C10 as stated: record creates an ActivityLog only for an existing course
\* whose instructor is the caller; with a missing course id, a non-existent
\* course, or a course of another user or of nobody, an instructor's request
\* (its category being valid) is answered 404 or 403 and the ActivityLog
\* table is unchanged.
C10_RecordOnlyOwnCourse_AsStated ==
    [][last'.op = "record" =>
        /\ (logs' # logs)
             => (/\ last'.req.course_id \in DOMAIN courses
                 /\ courses[last'.req.course_id].instructor = last'.caller)
        /\ (/\ role[last'.caller] = "INSTRUCTOR"
            /\ last'.req.activity_type \in ActivityTypeEnum
            /\ NotOwnCourse(last'.caller, last'.req.course_id))
             => (last'.code \in {403, 404} /\ logs' = logs)]_vars

\* C10 amended: as stated, except that a missing course id is answered 400;
\* whoever the caller and whatever the category, a request that names no
\* course of the caller fails and leaves the ActivityLog table unchanged.
C10_RecordOnlyOwnCourse ==
    [][last'.op = "record" =>
        /\ (logs' # logs)
             => (/\ last'.code = 201
                 /\ last'.req.course_id \in DOMAIN courses
                 /\ courses[last'.req.course_id].instructor = last'.caller
                 /\ DOMAIN logs' = DOMAIN logs \cup {last'.id}
                 /\ \A i \in DOMAIN logs : logs'[i] = logs[i])
        /\ (role[last'.caller] # "INSTRUCTOR")
             => (last'.code = 403 /\ logs' = logs)
        /\ (/\ role[last'.caller] = "INSTRUCTOR"
            /\ NotOwnCourse(last'.caller, last'.req.course_id))
             => (/\ last'.code \in {400, 404}
                 /\ logs' = logs
                 /\ (last'.req.activity_type \in ActivityTypeEnum)
                      => (last'.code = IF last'.req.course_id = 0
                                       THEN 400 ELSE 404))]_vars

\* C10 witness: an instructor's request with a valid category against a
\* course taught by another instructor was answered 404.
C10_Witness ==
    /\ last.op = "record" /\ last.code = 404
    /\ role[last.caller] = "INSTRUCTOR"
    /\ last.req.course_id \in DOMAIN courses
    /\ courses[last.req.course_id].instructor \notin {last.caller, NoUser}

----------------------------------------------------------------------------
(* Activity log: list, update, delete *)

\* The value of a key the request does not carry.
Absent == "<absent>"

\* The log_id keyword of ActivityLogView.put and .delete: the route
\* 'activities/' captures nothing, so the default None is what they get.
NoLogId == 0

\* A course_id query parameter that is no number.
NonNumericId == -1

\* The course_id and the details of a body that carries none.
AbsentId == -2
AbsentDetails == [custom_log_date |-> Absent]

Str_2024_2_1 == <<"2", "0", "2", "4", "-", "2", "-", "1">>

\* The number one or two digit characters spell, -1 for anything else.
DigitsVal(p) ==
    IF Len(p) = 1 /\ IsDigit(p[1]) THEN DigitVal(p[1])
    ELSE IF Len(p) = 2 /\ IsDigit(p[1]) /\ IsDigit(p[2])
         THEN DigitVal(p[1]) * 10 + DigitVal(p[2])
    ELSE -1

\* datetime.strptime(s, '%Y-%m-%d').date(): four year digits, a month and a
\* day of one or two digits (the day may also be a space and a digit), and a
\* real calendar day; ValueError otherwise.
strptime_Ymd(s) ==
    IF /\ Len(s) \in 8..10
       /\ \A i \in 1..4 : IsDigit(s[i])
       /\ s[5] = "-"
       /\ s[7] = "-" \/ s[8] = "-"
    THEN LET k == IF s[7] = "-" THEN 7 ELSE 8
             mp == SubSeq(s, 6, k - 1)
             dp == SubSeq(s, k + 1, Len(s))
             y == DigitVal(s[1]) * 1000 + DigitVal(s[2]) * 100
                  + DigitVal(s[3]) * 10 + DigitVal(s[4])
             m == DigitsVal(mp)
             d == IF Len(dp) = 2 /\ dp[1] = " " /\ DigitVal(dp[2]) >= 1
                  THEN DigitVal(dp[2]) ELSE DigitsVal(dp)
         IN IF /\ Len(dp) \in 1..2
               /\ y >= 1 /\ m \in 1..12 /\ d >= 1 /\ d <= DaysInMonth(y, m)
            THEN <<y, m, d>> ELSE ValueError
    ELSE ValueError

\* ActivityLogView.get without the filter on the instructor.
ActivityLogView_get_all(ls, u, f) ==
    [code |-> 200, ids |-> DOMAIN ls]

\* ActivityLogView.get: the ids of the entries returned to u
ActivityLogView_get(ls, u, f) ==
    LET own == {i \in DOMAIN ls : ls[i].instructor = u}
        byType == IF f.activity_type # ""
                  THEN {i \in own : ls[i].activity_type = f.activity_type}
                  ELSE own
        byCourse == IF f.course_id # 0
                    THEN {i \in byType : ls[i].course = f.course_id}
                    ELSE byType
        from == strptime_Ymd(f.date_from)
        byFrom == IF f.date_from # Missing /\ from # ValueError
                  THEN {i \in byCourse : DateLe(from, ls[i].log_date)}
                  ELSE byCourse
        to == strptime_Ymd(f.date_to)
        byTo == IF f.date_to # Missing /\ to # ValueError
                THEN {i \in byFrom : DateLe(ls[i].log_date, to)}
                ELSE byFrom
    IN IF f.course_id = NonNumericId
       THEN \* filter(course_id='abc') raises ValueError, which nothing catches
            [code |-> 500, ids |-> {}]
       ELSE [code |-> 200, ids |-> byTo]

NoFilter ==
    [activity_type |-> "", course_id |-> 0, date_from |-> Missing,
     date_to |-> Missing]

FilterDates == {Str_2024_01_31, Str_2024_02_01, Str_2024_2_1, Str_2024_02_30}

\* Query strings of GET /activities/: no filter, and each filter alone with a
\* matching, a non-matching and a malformed value.
ListFilters ==
    {[NoFilter EXCEPT !.activity_type = t] : t \in {"", "MDB_REPLY", "MDB Replies"}}
    \cup {[NoFilter EXCEPT !.course_id = c] : c \in {NonNumericId, 1, 2}}
    \cup {[NoFilter EXCEPT !.date_from = d] : d \in FilterDates}
    \cup {[NoFilter EXCEPT !.date_to = d] : d \in FilterDates}

List ==
    \E u \in users, f \in ListFilters :
        /\ IF ~IsInstructorUser(u)
           THEN last' = [op |-> "list", caller |-> u, code |-> 403, ids |-> {}]
           ELSE LET r == ActivityLogView_get(logs, u, f)
                IN last' = [op |-> "list", caller |-> u,
                            code |-> r.code, ids |-> r.ids]
        /\ UNCHANGED <<ActivityStore, ReportStore, AccountStore>>

\* ActivityLog.objects.get(pk=pk) without the condition on the instructor.
AnyLog(ls, pk, u) == pk \in DOMAIN ls

\* ActivityLog.objects.get(pk=pk, instructor=user) finds a row.
OwnLog(ls, pk, u) == pk \in DOMAIN ls /\ ls[pk].instructor = u

\* ActivityLogView.put
ActivityLogView_put(u, log_id, req) ==
    LET Respond(code) ==
            last' = [op |-> "put", caller |-> u, id |-> log_id, code |-> code]
    IN
    IF ~IsInstructorUser(u) THEN Respond(403) /\ UNCHANGED logs
    ELSE IF log_id = NoLogId THEN Respond(400) /\ UNCHANGED logs
    ELSE IF ~OwnLog(logs, log_id, u) THEN Respond(404) /\ UNCHANGED logs
    ELSE LET log == logs[log_id]
             activity_type == IF req.activity_type = Absent
                              THEN log.activity_type ELSE req.activity_type
             course_id == IF req.course_id = AbsentId
                          THEN log.course ELSE req.course_id
             details == IF req.details = AbsentDetails THEN log.details ELSE req.details
         IN IF activity_type \notin ActivityTypeEnum
            THEN Respond(400) /\ UNCHANGED logs
            ELSE IF course_id # NoCourse /\ ~CourseTaughtBy(courses, course_id, u)
            THEN Respond(404) /\ UNCHANGED logs
            ELSE /\ logs' = [logs EXCEPT ![log_id] =
                       [log EXCEPT !.activity_type = activity_type,
                                   !.course = course_id,
                                   !.details = details]]
                 /\ Respond(200)

\* ActivityLogView.delete
ActivityLogView_delete(u, log_id) ==
    LET Respond(code) ==
            last' = [op |-> "remove", caller |-> u, id |-> log_id, code |-> code]
    IN
    IF ~IsInstructorUser(u) THEN Respond(403) /\ UNCHANGED logs
    ELSE IF log_id = NoLogId THEN Respond(400) /\ UNCHANGED logs
    ELSE IF ~OwnLog(logs, log_id, u) THEN Respond(404) /\ UNCHANGED logs
    ELSE /\ logs' = [i \in DOMAIN logs \ {log_id} |-> logs[i]]
         /\ Respond(200)

\* ActivityLogSerializer(log, data, partial=True).save() that writes the
\* category into the row.
SerializerUpdateWritingType(log, req) ==
    [log EXCEPT !.activity_type = IF req.activity_type = Absent
                                  THEN @ ELSE req.activity_type,
                !.details = IF req.details = AbsentDetails THEN @ ELSE req.details]

\* ActivityLogSerializer(log, data, partial=True).save(): the writable
\* fields are details and activity_type; activity_type is declared with
\* source='get_activity_type_display', so its value is set on the instance
\* under that attribute name and the row's activity_type is left as it was.
SerializerUpdate(log, req) ==
    [log EXCEPT !.details = IF req.details = AbsentDetails THEN @ ELSE req.details]

\* ActivityLogDetailView.put
ActivityLogDetailView_put(u, pk, req) ==
    LET Respond(code) ==
            last' = [op |-> "detail_put", caller |-> u, id |-> pk,
                     req |-> req, code |-> code]
    IN
    IF ~IsInstructorUser(u)
    THEN /\ last' = [op |-> "detail_put", caller |-> u, id |-> pk, code |-> 403]
         /\ UNCHANGED logs
    ELSE IF ~OwnLog(logs, pk, u) THEN Respond(404) /\ UNCHANGED logs
    ELSE IF req.activity_type = ""
    THEN \* CharField: "This field may not be blank."
         Respond(400) /\ UNCHANGED logs
    ELSE /\ logs' = [logs EXCEPT ![pk] = SerializerUpdate(logs[pk], req)]
         /\ Respond(200)

\* ActivityLogDetailView.delete
ActivityLogDetailView_delete(u, pk) ==
    LET Respond(code) ==
            last' = [op |-> "detail_delete", caller |-> u, id |-> pk,
                     code |-> code]
    IN
    IF ~IsInstructorUser(u) THEN Respond(403) /\ UNCHANGED logs
    ELSE IF ~OwnLog(logs, pk, u) THEN Respond(404) /\ UNCHANGED logs
    ELSE /\ logs' = [i \in DOMAIN logs \ {pk} |-> logs[i]]
         /\ Respond(204)

EditedDetails == [custom_log_date |-> "2024-01-15"]

\* Bodies of PUT /activities/<pk>/ and PUT /activities/: nothing, another
\* category, a display name, a blank category, other details, another course.
NoChange ==
    [activity_type |-> Absent, course_id |-> AbsentId, details |-> AbsentDetails]

PutRequests ==
    {[NoChange EXCEPT !.activity_type = t] :
        t \in {Absent, "GDB_MARKING", "MDB Replies", ""}}
    \cup {[NoChange EXCEPT !.details = EditedDetails]}

LogIds == 1..(MaxLogs + 1)

ViewPut ==
    \E u \in users, req \in PutRequests :
        /\ ActivityLogView_put(u, NoLogId, req)
        /\ UNCHANGED <<nextLogId, today, ReportStore, AccountStore>>

ViewDelete ==
    \E u \in users :
        /\ ActivityLogView_delete(u, NoLogId)
        /\ UNCHANGED <<nextLogId, today, ReportStore, AccountStore>>

DetailPut ==
    \E u \in users, pk \in LogIds, req \in PutRequests :
        /\ ActivityLogDetailView_put(u, pk, req)
        /\ UNCHANGED <<nextLogId, today, ReportStore, AccountStore>>

DetailDelete ==
    \E u \in users, pk \in LogIds :
        /\ ActivityLogDetailView_delete(u, pk)
        /\ UNCHANGED <<nextLogId, today, ReportStore, AccountStore>>

NextList == Record \/ Tick \/ List

SpecList == InitActivity /\ [][NextList]_vars

NextLogs == Record \/ ViewPut \/ ViewDelete \/ DetailPut \/ DetailDelete

SpecLogs == InitActivity /\ [][NextLogs]_vars

----------------------------------------------------------------------------
(* Properties of the activity log *)

\* C11: every stored ActivityLog's category is a member name of
\* ActivityTypeEnum; a record request of an instructor with a category
\* outside the enumeration is answered 400 and creates nothing; and no step
\* of ActivityLogView.put or ActivityLogDetailView.put stores a category
\* outside the enumeration.
C11_CategoryAlwaysInEnum ==
    /\ [](\A i \in DOMAIN logs : logs[i].activity_type \in ActivityTypeEnum)
    /\ [][/\ (/\ last'.op = "record"
              /\ role[last'.caller] = "INSTRUCTOR"
              /\ last'.req.activity_type \notin ActivityTypeEnum)
               => (last'.code = 400 /\ logs' = logs /\ nextLogId' = nextLogId)
          /\ (last'.op \in {"put", "detail_put"})
               => (\A i \in DOMAIN logs' :
                       logs'[i].activity_type \in ActivityTypeEnum)]_vars

\* C11 witness: ActivityLogDetailView.put accepted (200) a body whose
\* category is no member name, and the entry's stored category is still one.
C11_Witness ==
    /\ last.op = "detail_put" /\ last.code = 200
    /\ last.req.activity_type \notin ActivityTypeEnum \cup {Absent}
    /\ logs[last.id].activity_type \in ActivityTypeEnum

\* C12: for distinct instructors A and B and every combination of filters,
\* the list returned to A holds only entries of A, and it is the list A gets
\* from the store without the entries of B.
C12_ListOnlyOwnEntries ==
    /\ \A a \in {u \in users : role[u] = "INSTRUCTOR"}, f \in ListFilters :
          LET r == ActivityLogView_get(logs, a, f)
          IN /\ \A i \in r.ids : logs[i].instructor = a
             /\ \A b \in users \ {a} :
                   LET others == [i \in {j \in DOMAIN logs :
                                           logs[j].instructor # b} |-> logs[i]]
                   IN ActivityLogView_get(others, a, f) = r
    /\ (last.op = "list" /\ last.code = 200)
         => (\A i \in last.ids : logs[i].instructor = last.caller)

\* C12 witness: a list with entries was returned to an instructor while
\* another instructor has entries in the store.
C12_Witness ==
    /\ last.op = "list" /\ last.code = 200 /\ last.ids # {}
    /\ \E i \in DOMAIN logs : logs[i].instructor # last.caller

\* C13: an update or delete of an ActivityLog changes the table only when
\* the targeted entry's instructor is the caller; for an instructor naming
\* an entry that does not exist or is another instructor's the answer is 404
\* and the table is unchanged; a successful delete removes exactly the
\* targeted entry and a successful update touches no other entry.
C13_EditOnlyOwnEntries ==
    [][(last'.op \in {"put", "remove", "detail_put", "detail_delete"}) =>
        /\ (last'.code \in {200, 204} \/ logs' # logs)
             => (/\ last'.code \in {200, 204}
                 /\ last'.id \in DOMAIN logs
                 /\ logs[last'.id].instructor = last'.caller
                 /\ \A i \in DOMAIN logs \ {last'.id} :
                       i \in DOMAIN logs' /\ logs'[i] = logs[i])
        /\ (/\ last'.op \in {"detail_put", "detail_delete"}
            /\ role[last'.caller] = "INSTRUCTOR"
            /\ \/ last'.id \notin DOMAIN logs
               \/ logs[last'.id].instructor # last'.caller)
             => (last'.code = 404 /\ logs' = logs)
        /\ (last'.op \in {"remove", "detail_delete"} /\ last'.code \in {200, 204})
             => (DOMAIN logs' = DOMAIN logs \ {last'.id})
        /\ (last'.op \in {"put", "detail_put"} /\ last'.code = 200)
             => (/\ DOMAIN logs' = DOMAIN logs
                 /\ logs'[last'.id].instructor = logs[last'.id].instructor)]_vars

\* C13 witness: an instructor's delete of another instructor's entry was
\* answered 404 and the entry is still stored.
C13_Witness ==
    /\ last.op = "detail_delete" /\ last.code = 404
    /\ role[last.caller] = "INSTRUCTOR"
    /\ last.id \in DOMAIN logs
    /\ logs[last.id].instructor # last.caller

----------------------------------------------------------------------------
(* Accounts *)

MaxEvents == 2      \* SystemEventLog rows written

\* A JSON number sent where a string is expected.
JsonNumber == "<number>"

\* str.upper() on the role strings a client sends.
Upper(s) ==
    CASE s = "admin" -> "ADMIN"
      [] s = "instructor" -> "INSTRUCTOR"
      [] s = "student" -> "STUDENT"
      [] OTHER -> s

\* The Department rows (seeded; no endpoint writes them).
Departments == {1}

\* BasePermission.has_permission of IsAdminUser / IsInstructorUser for an
\* authenticated user: request.user.profile raises RelatedObjectDoesNotExist
\* for a user that has no Profile row.
HasPermission(wanted, u) ==
    IF u \notin DOMAIN role THEN "raise"
    ELSE IF role[u] = wanted THEN "allow" ELSE "deny"

\* The response to a request the permission check does not let through.
RefusalCode(wanted, u) == IF HasPermission(wanted, u) = "raise" THEN 500 ELSE 403

\* User.delete(): Profile and ActivityLog rows go with the user (CASCADE);
\* Course.instructor, Report.generated_by and SystemEventLog.actor are set
\* to NULL.
RoleAfterDelete(t) == [u \in DOMAIN role \ {t} |-> role[u]]
LogsAfterDelete(t) == [i \in {j \in DOMAIN logs : logs[j].instructor # t} |-> logs[i]]
\* Course.instructor declared on_delete=CASCADE: the courses go with the user.
CoursesAfterDeleteCascade(t) ==
    [c \in {d \in DOMAIN courses : courses[d].instructor # t} |-> courses[c]]

CoursesAfterDelete(t) ==
    [c \in DOMAIN courses |->
        IF courses[c].instructor = t
        THEN [courses[c] EXCEPT !.instructor = NoUser] ELSE courses[c]]
ReportsAfterDelete(t) ==
    [r \in DOMAIN reports |->
        IF reports[r].generated_by = t
        THEN [reports[r] EXCEPT !.generated_by = NoUser] ELSE reports[r]]
SyslogAfterDelete(t) ==
    [i \in 1..Len(syslog) |->
        IF syslog[i].actor = t
        THEN [syslog[i] EXCEPT !.actor = NoUser] ELSE syslog[i]]

UserEvent(actor, event_type, username) ==
    [actor |-> actor, event_type |-> event_type,
     details |-> [username |-> username]]

\* A well-formed body of POST /register/ and of POST /users/.
ValidRegister ==
    [username |-> "n1", role |-> Absent, department |-> 1, confirmed |-> TRUE]

\* Bodies of POST /register/: the valid one with one field varied: no
\* username and a taken one; a role in lower case, a role that is no role
\* and a number; no department and an unknown one; a confirmation that
\* differs from the password.
RegisterRequests ==
    {[ValidRegister EXCEPT !.username = n] : n \in {"n1", "", "i1"}}
    \cup {[ValidRegister EXCEPT !.role = r] : r \in {"admin", "student", JsonNumber}}
    \cup {[ValidRegister EXCEPT !.department = d] : d \in {0, 2}}
    \cup {[ValidRegister EXCEPT !.confirmed = FALSE]}

\* RegisterView.post, lines 28-58: validation, the username check and the
\* department lookup
RegisterView_post_check(h, caller, req) ==
    LET Respond(code) ==
            /\ last' = [op |-> "register", step |-> "check", caller |-> caller,
                        req |-> req, code |-> code]
            /\ UNCHANGED inflight
    IN
    /\ inflight[h] = Idle
    /\ IF req.username = "" \/ req.department = 0 THEN Respond(400)
       ELSE IF ~req.confirmed THEN Respond(400)
       ELSE IF req.username \in users THEN Respond(400)
       ELSE IF req.department \notin Departments THEN Respond(404)
       ELSE /\ inflight' = [inflight EXCEPT ![h] =
                   [pc |-> "create", view |-> "register", caller |-> caller,
                    req |-> req]]
            /\ last' = [op |-> "register", step |-> "check", caller |-> caller,
                        req |-> req, code |-> 0]
    /\ UNCHANGED <<users, role, syslog>>

\* The rows a create step leaves behind when its request.user was deleted
\* after the permission check: the foreign key of the event's actor fails,
\* at commit where the constraint is deferred (the transaction is rolled
\* back) or at the insert where it is immediate (the exception is caught and
\* the transaction commits without the event).
ActorGone(username, stored_role) ==
    /\ \/ UNCHANGED <<users, role>>
       \/ /\ users' = users \cup {username}
          /\ role' = role @@ (username :> stored_role)
    /\ UNCHANGED syslog

\* RegisterView.post, lines 60-85: the User, its Profile and the event
RegisterView_post_create(h) ==
    LET run == inflight[h]
        req == run.req
        given == IF req.role = Absent THEN "INSTRUCTOR" ELSE req.role
        actor == IF run.caller # NoUser THEN run.caller ELSE req.username
        Respond(code) ==
            last' = [op |-> "register", step |-> "create", caller |-> run.caller,
                     username |-> req.username, code |-> code]
    IN
    /\ run # Idle /\ run.view = "register"
    /\ inflight' = [inflight EXCEPT ![h] = Idle]
    /\ IF req.username \in users
       THEN \* line 62: IntegrityError on auth_user.username, caught at line 82
            Respond(500) /\ UNCHANGED <<users, role, syslog>>
       ELSE IF given = JsonNumber
       THEN \* line 69: role.upper() raises AttributeError after the User was
            \* saved; line 82 catches it, so the transaction commits
            /\ users' = users \cup {req.username}
            /\ Respond(500) /\ UNCHANGED <<role, syslog>>
       ELSE IF actor # req.username /\ actor \notin users
       THEN ActorGone(req.username, Upper(given)) /\ Respond(500)
       ELSE /\ Len(syslog) < MaxEvents
            /\ users' = users \cup {req.username}
            /\ role' = role @@ (req.username :> Upper(given))
            /\ syslog' = Append(syslog,
                                UserEvent(actor, "USER_CREATED", req.username))
            /\ Respond(201)

\* Bodies of POST /users/: the valid one with one field varied.
CreateRequests ==
    {[ValidRegister EXCEPT !.username = n] : n \in {"n1", "", "i1"}}
    \cup {[ValidRegister EXCEPT !.role = r] : r \in {"admin", "student"}}
    \cup {[ValidRegister EXCEPT !.department = 2]}

\* UserListView.post, lines 168-180: required fields and the username check
\* (every body carries email = username, as register stores it, so the email
\* check of line 179 decides as the username check does)
UserListView_post_check(h, caller, req) ==
    LET Respond(code) ==
            /\ last' = [op |-> "create_user", step |-> "check", caller |-> caller,
                        req |-> req, code |-> code]
            /\ UNCHANGED inflight
    IN
    /\ inflight[h] = Idle
    /\ IF HasPermission("ADMIN", caller) # "allow"
       THEN /\ last' = [op |-> "create_user", step |-> "check",
                        caller |-> caller, code |-> RefusalCode("ADMIN", caller)]
            /\ UNCHANGED inflight
       ELSE IF req.username = "" THEN Respond(400)
       ELSE IF req.username \in users THEN Respond(400)
       ELSE /\ inflight' = [inflight EXCEPT ![h] =
                   [pc |-> "create", view |-> "create_user", caller |-> caller,
                    req |-> req]]
            /\ last' = [op |-> "create_user", step |-> "check", caller |-> caller,
                        req |-> req, code |-> 0]
    /\ UNCHANGED <<users, role, syslog>>

\* UserListView.post, lines 182-220: the department lookup, the User, its
\* Profile (the role is stored as sent) and the event
UserListView_post_create(h) ==
    LET run == inflight[h]
        req == run.req
        given == IF req.role = Absent THEN "INSTRUCTOR" ELSE req.role
        Respond(code) ==
            last' = [op |-> "create_user", step |-> "create", caller |-> run.caller,
                     username |-> req.username, code |-> code]
    IN
    /\ run # Idle /\ run.view = "create_user"
    /\ inflight' = [inflight EXCEPT ![h] = Idle]
    /\ IF req.department \notin Departments
       THEN Respond(404) /\ UNCHANGED <<users, role, syslog>>
       ELSE IF req.username \in users
       THEN Respond(500) /\ UNCHANGED <<users, role, syslog>>
       ELSE IF run.caller \notin users
       THEN ActorGone(req.username, given) /\ Respond(500)
       ELSE /\ Len(syslog) < MaxEvents
            /\ users' = users \cup {req.username}
            /\ role' = role @@ (req.username :> given)
            /\ syslog' = Append(syslog,
                                UserEvent(run.caller, "USER_CREATED", req.username))
            /\ Respond(201)

\* Bodies of PUT /users/<pk>/: no change, a role in lower case, a role that
\* is no role, a number as role, an unknown department.
UpdateRequests ==
    {[role |-> r, department |-> 0] : r \in {Absent, "admin", "student", JsonNumber}}
    \cup {[role |-> Absent, department |-> 2]}

\* UserDetailManageView.put
UserDetailManageView_put(caller, target, req) ==
    LET Respond(code) ==
            last' = [op |-> "update_user", caller |-> caller, target |-> target,
                     req |-> req, code |-> code]
    IN
    IF HasPermission("ADMIN", caller) # "allow"
    THEN /\ last' = [op |-> "update_user", caller |-> caller,
                     code |-> RefusalCode("ADMIN", caller)]
         /\ UNCHANGED <<role, syslog>>
    ELSE IF target \notin users THEN Respond(404) /\ UNCHANGED <<role, syslog>>
    ELSE IF target \notin DOMAIN role
    THEN \* line 250: user.profile raises RelatedObjectDoesNotExist
         Respond(500) /\ UNCHANGED <<role, syslog>>
    ELSE IF req.role = JsonNumber
    THEN \* line 259: AttributeError
         Respond(500) /\ UNCHANGED <<role, syslog>>
    ELSE IF req.department # 0 /\ req.department \notin Departments
    THEN Respond(404) /\ UNCHANGED <<role, syslog>>
    ELSE /\ Len(syslog) < MaxEvents
         /\ role' = [role EXCEPT ![target] =
                        Upper(IF req.role = Absent THEN @ ELSE req.role)]
         /\ syslog' = Append(syslog, UserEvent(caller, "USER_UPDATED", target))
         /\ Respond(200)

\* UserDetailManageView.delete
UserDetailManageView_delete(caller, target) ==
    LET Respond(code) ==
            last' = [op |-> "delete_user", caller |-> caller, target |-> target,
                     code |-> code]
        Unchanged == UNCHANGED <<users, role, courses, logs, reports, syslog>>
    IN
    IF HasPermission("ADMIN", caller) # "allow"
    THEN Respond(RefusalCode("ADMIN", caller)) /\ Unchanged
    ELSE IF target \notin users THEN Respond(404) /\ Unchanged
    ELSE /\ users' = users \ {target}
         /\ role' = RoleAfterDelete(target)
         /\ logs' = LogsAfterDelete(target)
         /\ courses' = CoursesAfterDelete(target)
         /\ reports' = ReportsAfterDelete(target)
         /\ IF target = caller
            THEN \* line 288: the actor's row is gone, the insert fails on the
                 \* foreign key and nothing catches the IntegrityError
                 /\ syslog' = SyslogAfterDelete(target)
                 /\ Respond(500)
            ELSE /\ Len(syslog) < MaxEvents
                 /\ syslog' = Append(SyslogAfterDelete(target),
                                     UserEvent(caller, "USER_DELETED", target))
                 /\ Respond(204)

\* The views behind a role check and the role each wants, without the ones
\* modelled step by step above.
GatedViews ==
    {[view |-> v, wants |-> "ADMIN"] :
        v \in {"UserListView.get", "UserDetailManageView.get",
               "AdminDashboardStatsView.get", "CourseListView.get",
               "CourseListView.post", "CourseDetailManageView.get",
               "CourseDetailManageView.put", "CourseDetailManageView.delete",
               "ReportListView.get", "ReportListView.post",
               "ReportListView.delete", "AdminAnalyticsView.get",
               "SystemEventLogView.get"}}
    \cup {[view |-> v, wants |-> "INSTRUCTOR"] :
        v \in {"InstructorCourseListView.get", "ActivityLogView.get",
               "ActivityLogView.post", "ActivityLogView.put",
               "ActivityLogView.delete", "InstructorDashboardStatsView.get",
               "ActivityLogDetailView.put", "ActivityLogDetailView.delete",
               "InstructorPerformanceView.get"}}

\* APIView.initial -> check_permissions for a caller the view's role check
\* does not let through: the handler never runs.
Refused ==
    \E u \in users, v \in GatedViews :
        /\ HasPermission(v.wants, u) # "allow"
        /\ last' = [op |-> "refused", view |-> v.view, caller |-> u,
                    code |-> RefusalCode(v.wants, u)]
        /\ UNCHANGED <<ActivityStore, ReportStore, AccountStore>>

OutsideAccounts ==
    <<courses, nextCourseId, ActivityStore, reports, files, workers, nextReportId>>

\* POST /register/ is the public sign-up: its callers send no credentials.
RegisterCheck ==
    \E h \in DOMAIN inflight, req \in RegisterRequests :
        RegisterView_post_check(h, NoUser, req) /\ UNCHANGED OutsideAccounts

RegisterCreate ==
    \E h \in DOMAIN inflight :
        RegisterView_post_create(h) /\ UNCHANGED OutsideAccounts

CreateUserCheck ==
    \E h \in DOMAIN inflight, caller \in users, req \in CreateRequests :
        UserListView_post_check(h, caller, req) /\ UNCHANGED OutsideAccounts

CreateUserCreate ==
    \E h \in DOMAIN inflight :
        UserListView_post_create(h) /\ UNCHANGED OutsideAccounts

UpdateUser ==
    \E caller \in users, target \in users \cup {"n1"}, req \in UpdateRequests :
        /\ UserDetailManageView_put(caller, target, req)
        /\ UNCHANGED <<users, inflight, OutsideAccounts>>

DeleteUser ==
    \E caller \in users, target \in users \cup {"n1"} :
        /\ UserDetailManageView_delete(caller, target)
        /\ UNCHANGED <<files, workers, nextReportId, nextLogId, nextCourseId,
                       today, inflight>>

\* A small store: one admin, one instructor with a course and an activity
\* log, and a course without instructor.
InitSmallStore ==
    /\ users = {"a1", "i1"}
    /\ role = [u \in {"a1", "i1"} |-> Role0[u]]
    /\ courses = [c \in {1, 3} |-> Courses0[c]]
    /\ nextCourseId = 4
    /\ logs = (1 :> Log_i1)
    /\ nextLogId = 2
    /\ today = NextDay(Day0)
    /\ reports = EmptyTable
    /\ files = EmptyTable
    /\ syslog = <<>>
    /\ workers = [w \in Workers |-> Idle]
    /\ nextReportId = 1
    /\ last = [op |-> "init"]

\* Account management served by one web worker: requests one after another.
InitAccounts == InitSmallStore /\ inflight = [h \in {"h1"} |-> Idle]

NextAccounts ==
    \/ RegisterCheck \/ RegisterCreate
    \/ CreateUserCheck \/ CreateUserCreate
    \/ UpdateUser \/ DeleteUser

SpecAccounts == InitAccounts /\ [][NextAccounts]_vars

\* Sign-up and user creation served by two web workers at the same time.
InitSignup == InitSmallStore /\ inflight = [h \in Handlers |-> Idle]

NextSignup ==
    \/ RegisterCheck \/ RegisterCreate
    \/ CreateUserCheck \/ CreateUserCreate

SpecSignup == InitSignup /\ [][NextSignup]_vars

\* The role checks, with the users sign-up and deletion leave behind.
NextGates == RegisterCheck \/ RegisterCreate \/ DeleteUser \/ Refused

SpecGates == InitAccounts /\ [][NextGates]_vars

----------------------------------------------------------------------------
(* Properties of the accounts *)

\* C14: a request to an admin-only view by an authenticated caller whose
\* role is not ADMIN, and a request to an instructor-only view by one whose
\* role is not INSTRUCTOR, is answered 403 and changes no stored record.
C14_RoleGatesRefuse ==
    [][(\/ last'.op = "refused"
        \/ /\ last'.op = "delete_user"
           /\ (last'.caller \notin DOMAIN role \/ role[last'.caller] # "ADMIN"))
         => (/\ last'.code = 403
             /\ UNCHANGED <<users, role, courses, logs, reports, files, syslog>>)]_vars

\* C17: SystemEventLog is append-only: every step keeps each entry that
\* exists, with the same actor, event type and details, and only adds
\* entries.
C17_EventLogAppendOnly ==
    [][/\ Len(syslog') >= Len(syslog)
       /\ \A i \in 1..Len(syslog) : syslog'[i] = syslog[i]]_vars

\* C18: every stored Profile's role is ADMIN or INSTRUCTOR.
C18_RoleAlwaysInEnum == \A u \in DOMAIN role : role[u] \in RoleEnum

\* C19: every User has a Profile: no register or user-create request leaves
\* a User without one.
C19_UserAndProfileTogether == \A u \in users : u \in DOMAIN role

\* C20: a register or user-create request that reaches its create step when
\* the username has been taken meanwhile is answered 400 and creates
\* nothing.
C20_LostRaceIsConflict ==
    [][(/\ last'.op \in {"register", "create_user"}
        /\ last'.step = "create"
        /\ last'.username \in users
        /\ last'.code # 404)
         => (last'.code = 400 /\ UNCHANGED <<users, role, syslog>>)]_vars

----------------------------------------------------------------------------
\* Growth figures of the dashboards.
\*
\* calculate_growth returns a float with one decimal; the model holds it as
\* an integer number of tenths of a percent (50.0 is 500, -100.0 is -1000).

MaxCount == 15

Abs(x) == IF x < 0 THEN -x ELSE x

\* Floor of n / d for d > 0 and any integer n.
FloorDiv(n, d) == IF n >= 0 THEN n \div d ELSE -((-n + d - 1) \div d)

\* round(x, 1) of x = n / (10 * d): the nearest tenth, an exact tie going to
\* the even tenth. For counts up to 47 the float quotient is a tie exactly
\* when the rational one is (d a multiple of 16, where the float is exact).
RoundTenths(n, d) ==
    LET q == FloorDiv(n, d)
        r == n - q * d
    IN  IF 2 * r > d \/ (2 * r = d /\ q % 2 = 1) THEN q + 1 ELSE q

\* The same with the fraction cut off instead of rounded.
calculate_growth_truncating(current_count, previous_count) ==
    IF previous_count = 0
    THEN IF current_count > 0 THEN 1000 ELSE 0
    ELSE FloorDiv((current_count - previous_count) * 1000, previous_count)

calculate_growth(current_count, previous_count) ==
    IF previous_count = 0
    THEN IF current_count > 0 THEN 1000 ELSE 0
    ELSE RoundTenths((current_count - previous_count) * 1000, previous_count)

Counts == 0..MaxCount

Growth ==
    /\ \E current \in Counts, previous \in Counts :
           last' = [op |-> "growth", current |-> current, previous |-> previous,
                    result |-> calculate_growth(current, previous)]
    /\ UNCHANGED <<AccountStore, ActivityStore, ReportStore, syslog>>

SpecGrowth == InitAccounts /\ [][Growth]_vars

\* C16: for non-negative counts calculate_growth is 0.0 when both counts are
\* 0, 100.0 when previous is 0 and current is positive, and otherwise the
\* tenth of a percent nearest to (current - previous) / previous * 100;
\* growth(0,0) = 0.0, growth(5,0) = 100.0, growth(15,10) = 50.0,
\* growth(5,10) = -50.0, and no result is below -100.0.
C16_GrowthValues ==
    (last.op = "growth") =>
        LET c == last.current
            p == last.previous
            r == last.result
        IN  /\ (p = 0 /\ c = 0) => (r = 0)
            /\ (p = 0 /\ c > 0) => (r = 1000)
            /\ (p > 0) => (2 * Abs(r * p - (c - p) * 1000) <= p)
            /\ (c = 0 /\ p = 0) => (r = 0)
            /\ (c = 5 /\ p = 0) => (r = 1000)
            /\ (c = 15 /\ p = 10) => (r = 500)
            /\ (c = 5 /\ p = 10) => (r = -500)
            /\ r >= -1000

C16_Witness ==
    /\ last.op = "growth"
    /\ last.current = 5
    /\ last.previous = 3
    /\ last.result = 667

----------------------------------------------------------------------------
\* Dashboards.
\*
\* Every account of the dashboards' store is active (User.is_active defaults
\* to True), and there are fewer than six instructors and fewer than six
\* activity logs per instructor, so the [:5] slices cut nothing off.
\* Breakdowns are functions from the group key to the count of its rows.

PrevDay(a) ==
    IF a[3] > 1 THEN <<a[1], a[2], a[3] - 1>>
    ELSE IF a[2] > 1 THEN <<a[1], a[2] - 1, DaysInMonth(a[1], a[2] - 1)>>
    ELSE <<a[1] - 1, 12, 31>>

RECURSIVE SubDays(_, _)
SubDays(d, n) == IF n = 0 THEN d ELSE SubDays(PrevDay(d), n - 1)

DateLt(a, b) == DateLe(a, b) /\ a # b

\* User.date_joined of the accounts of the initial store.
date_joined(u) == IF u = "i2" THEN Day0 ELSE <<2023, 12, 1>>

\* An activity recorded thirty days before the day after Day0.
Log_old == [instructor |-> "i1", course |-> 3, activity_type |-> "GDB_MARKING",
            log_date |-> <<2024, 1, 2>>, details |-> [custom_log_date |-> ""]]

\* A report whose generation failed, with its generated_at column.
Report_failed ==
    [generated_by |-> "a1", report_type |-> "SYSTEM_USAGE", status |-> "FAILED",
     start_date |-> Day0, end_date |-> Day0, generated_file |-> NoFile,
     generated_at |-> Day0]

\* .values(key).annotate(count=Count('id')) over the rows of a queryset:
\* rows is the set of their ids, key the grouping column of each.
Breakdown(rows, key) ==
    [k \in {key[i] : i \in rows} |-> Cardinality({i \in rows : key[i] = k})]

start_of_this_month(d) == <<d[1], d[2], 1>>

IsActiveInstructor(u) == u \in DOMAIN role /\ role[u] = "INSTRUCTOR"

\* AdminDashboardStatsView.get: the figures of the response, growth in
\* tenths of a percent.
adminStats ==
    LET som == start_of_this_month(today)
        completed == {r \in DOMAIN reports : reports[r].status = "COMPLETED"}
        total_users == Cardinality(users)
        active_instructors == Cardinality({u \in users : IsActiveInstructor(u)})
        reports_generated == Cardinality(completed)
        prev_total_users ==
            Cardinality({u \in users : DateLt(date_joined(u), som)})
        prev_active_instructors ==
            Cardinality({u \in users : /\ IsActiveInstructor(u)
                                       /\ DateLt(date_joined(u), som)})
        prev_reports_generated ==
            Cardinality({r \in completed : DateLt(reports[r].generated_at, som)})
    IN  [total_users |-> total_users,
         total_users_growth |-> calculate_growth(total_users, prev_total_users),
         active_instructors |-> active_instructors,
         active_instructors_growth |->
             calculate_growth(active_instructors, prev_active_instructors),
         reports_generated |-> reports_generated,
         reports_generated_growth |->
             calculate_growth(reports_generated, prev_reports_generated)]

\* InstructorDashboardStatsView.get
instructorStats(instructor) ==
    LET own == {i \in DOMAIN logs : logs[i].instructor = instructor}
    IN  [total_activities |-> Cardinality(own),
         activity_breakdown |->
             Breakdown(own, [i \in own |-> logs[i].activity_type]),
         recent_activities |-> own,
         courses_assigned_count |->
             Cardinality({c \in DOMAIN courses :
                            courses[c].instructor = instructor})]

\* AdminAnalyticsView.get
adminAnalytics ==
    LET thirty_days_ago == SubDays(today, 30)
        all == DOMAIN logs
        recent == {i \in all : DateLe(thirty_days_ago, logs[i].log_date)}
    IN  [activity_over_time |->
             Breakdown(recent, [i \in recent |-> logs[i].log_date]),
         activity_by_type |->
             Breakdown(all, [i \in all |-> logs[i].activity_type]),
         top_instructors |->
             [u \in {x \in users : IsActiveInstructor(x)} |->
                 Cardinality({i \in all : logs[i].instructor = u})]]

\* InstructorPerformanceView.get
instructorPerformance(instructor) ==
    LET thirty_days_ago == SubDays(today, 30)
        own == {i \in DOMAIN logs : logs[i].instructor = instructor}
        recent == {i \in own : DateLe(thirty_days_ago, logs[i].log_date)}
        course_code == [i \in own |->
                          IF logs[i].course \in DOMAIN courses
                          THEN courses[logs[i].course].course_code ELSE "None"]
    IN  [activity_over_time |->
             Breakdown(recent, [i \in recent |-> logs[i].log_date]),
         activity_by_type |->
             Breakdown(own, [i \in own |-> logs[i].activity_type]),
         activity_by_course |-> Breakdown(own, course_code)]

NoResult == [refused |-> TRUE]

\* The response of a dashboard view to caller u: the permission check of the
\* view, then its figures. `repeat' tells that the response before this one
\* was of the same view to the same caller, `day' the day of the call.
DashboardResponse(view, wanted, u, result) ==
    last' = [op |-> view, caller |-> u,
             code |-> IF HasPermission(wanted, u) = "allow" THEN 200
                      ELSE RefusalCode(wanted, u),
             result |-> IF HasPermission(wanted, u) = "allow" THEN result
                        ELSE NoResult,
             day |-> today,
             repeat |-> (last.op = view /\ last.caller = u)]

Records == <<users, role, courses, logs, reports, syslog>>

\* An analytics view that records its use in the system event log.
AdminAnalyticsLoggingEvent ==
    \E u \in users :
        /\ DashboardResponse("adminAnalytics", "ADMIN", u, adminAnalytics)
        /\ syslog' = IF HasPermission("ADMIN", u) = "allow" /\ Len(syslog) < MaxEvents
                     THEN Append(syslog, UserEvent(u, "USER_UPDATED", u))
                     ELSE syslog
        /\ UNCHANGED <<AccountStore, ActivityStore, reports, files, workers,
                       nextReportId>>

AdminStats ==
    \E u \in users :
        /\ DashboardResponse("adminStats", "ADMIN", u, adminStats)
        /\ UNCHANGED <<AccountStore, ActivityStore, ReportStore>>

InstructorStats ==
    \E u \in users :
        /\ DashboardResponse("instructorStats", "INSTRUCTOR", u, instructorStats(u))
        /\ UNCHANGED <<AccountStore, ActivityStore, ReportStore>>

AdminAnalytics ==
    \E u \in users :
        /\ DashboardResponse("adminAnalytics", "ADMIN", u, adminAnalytics)
        /\ UNCHANGED <<AccountStore, ActivityStore, ReportStore>>

InstructorPerformance ==
    \E u \in users :
        /\ DashboardResponse("instructorPerformance", "INSTRUCTOR", u,
                             instructorPerformance(u))
        /\ UNCHANGED <<AccountStore, ActivityStore, ReportStore>>

\* Midnight passes between two requests: no request is served, no response
\* is sent.
Midnight ==
    /\ today # AddDays(Day0, MaxDays)
    /\ today' = NextDay(today)
    /\ UNCHANGED <<logs, nextLogId, ReportStore, AccountStore, last>>

InitDashboards ==
    /\ inflight = [h \in {"h1"} |-> Idle]
    /\ users = Users0
    /\ role = Role0
    /\ courses = Courses0
    /\ nextCourseId = 4
    /\ logs = Logs0 @@ (3 :> Log_old)
    /\ nextLogId = 4
    /\ today = Day0
    /\ reports = (1 :> Report_failed)
    /\ files = EmptyTable
    /\ syslog = <<>>
    /\ workers = [w \in Workers |-> Idle]
    /\ nextReportId = 2
    /\ last = [op |-> "init"]

\* The dashboards, with the deletion of activity logs as the write that may
\* come between two calls.
NextDashboards ==
    \/ AdminStats \/ InstructorStats \/ AdminAnalytics \/ InstructorPerformance
    \/ DetailDelete \/ Midnight

SpecDashboards == InitDashboards /\ [][NextDashboards]_vars

Dashboards ==
    {"adminStats", "instructorStats", "adminAnalytics", "instructorPerformance"}

----------------------------------------------------------------------------
\* The row selection of the two generation paths, as functions of the log
\* table and of what each path has at hand: the request on the synchronous
\* path, the Report row (report type, start and end date) in the task.

\* ReportListView.post, lines 265-274
ReportListView_post_logs(ls, start_date, end_date, instructor_id) ==
    FilterInstructor(ls, LogsInRange(ls, start_date, end_date), instructor_id)

\* generate_activity_report, lines 19-21
generate_activity_report_logs(ls, report) ==
    LogsInRange(ls, report.start_date, report.end_date)

QueryDates == {Day0, NextDay(Day0), AddDays(Day0, 2)}

\* A submission's dates and instructor filter, and the logs each path
\* selects for it from the current table.
Query ==
    /\ \E start_date \in QueryDates, end_date \in QueryDates,
          instructor_id \in {"", "ALL", "i1"} :
           last' = [op |-> "query", start_date |-> start_date,
                    end_date |-> end_date, instructor_id |-> instructor_id,
                    sync |-> ReportListView_post_logs(logs, start_date, end_date,
                                                      instructor_id),
                    task |-> generate_activity_report_logs(logs,
                                 [generated_by |-> "a1",
                                  report_type |-> "ACTIVITY_SUMMARY",
                                  status |-> "PENDING",
                                  start_date |-> start_date,
                                  end_date |-> end_date,
                                  generated_file |-> NoFile])]
    /\ UNCHANGED <<ActivityStore, ReportStore, AccountStore>>

NextQuery == Record \/ Tick \/ Query

SpecQuery == InitActivity /\ [][NextQuery]_vars

----------------------------------------------------------------------------
(* Courses *)

MaxCourses == 4     \* Course ids handed out

\* A user id that is no number.
NonNumericUser == "<abc>"

CourseEvent(actor, course_code, course_title) ==
    [actor |-> actor, event_type |-> "COURSE_CREATED",
     details |-> [course_code |-> course_code, course_title |-> course_title]]

\* A well-formed body of POST /courses/.
ValidCourse ==
    [course_code |-> "CS104", course_title |-> "T4", instructor_id |-> "i1"]

\* Bodies of POST /courses/: the valid one with one field varied: no code
\* and a taken one; no title; no instructor, another instructor, an admin,
\* an unknown user and an id that is no number.
CourseRequests ==
    {[ValidCourse EXCEPT !.course_code = c] : c \in {"CS104", "", "CS101"}}
    \cup {[ValidCourse EXCEPT !.course_title = ""]}
    \cup {[ValidCourse EXCEPT !.instructor_id = i] :
            i \in {"", "i2", "a1", "zz", NonNumericUser}}

\* CourseListView.post
CourseListView_post(caller, req) ==
    LET Respond(code) ==
            last' = [op |-> "create_course", caller |-> caller,
                     instructor_id |-> req.instructor_id, code |-> code]
        Unchanged == UNCHANGED <<courses, nextCourseId, syslog>>
    IN
    IF HasPermission("ADMIN", caller) # "allow"
    THEN /\ last' = [op |-> "create_course", caller |-> caller,
                     code |-> RefusalCode("ADMIN", caller)]
         /\ Unchanged
    ELSE IF req.course_code = "" \/ req.course_title = "" \/ req.instructor_id = ""
    THEN Respond(400) /\ Unchanged
    ELSE IF req.instructor_id = NonNumericUser
    THEN \* line 44 raises ValueError, caught at line 64
         Respond(400) /\ Unchanged
    ELSE IF ~(/\ req.instructor_id \in users
              /\ req.instructor_id \in DOMAIN role
              /\ role[req.instructor_id] = "INSTRUCTOR")
    THEN Respond(404) /\ Unchanged
    ELSE IF \E c \in DOMAIN courses : courses[c].course_code = req.course_code
    THEN \* line 45 raises IntegrityError (course_code is unique), caught at
         \* line 64
         Respond(400) /\ Unchanged
    ELSE /\ nextCourseId <= MaxCourses
         /\ Len(syslog) < MaxEvents
         /\ courses' = courses @@
                (nextCourseId :> [course_code |-> req.course_code,
                                  course_title |-> req.course_title,
                                  instructor |-> req.instructor_id])
         /\ nextCourseId' = nextCourseId + 1
         /\ syslog' = Append(syslog, CourseEvent(caller, req.course_code,
                                                 req.course_title))
         /\ Respond(201)

\* Bodies of PUT /courses/<pk>/: nothing, another title, a blank title, the
\* code of course 3, a blank code, another instructor.
NoCourseChange ==
    [course_code |-> Absent, course_title |-> Absent, instructor_id |-> Absent]

CourseUpdateRequests ==
    {[NoCourseChange EXCEPT !.course_title = t] : t \in {Absent, "T9", ""}}
    \cup {[NoCourseChange EXCEPT !.course_code = c] : c \in {"CS103", ""}}
    \cup {[NoCourseChange EXCEPT !.instructor_id = "i2"]}

\* CourseSerializer(course, data, partial=True).save(): the instructor is a
\* read-only field, whatever the request names is ignored.
CourseSerializerUpdate(course, req) ==
    [course_code |-> IF req.course_code = Absent THEN course.course_code
                     ELSE req.course_code,
     course_title |-> IF req.course_title = Absent THEN course.course_title
                      ELSE req.course_title,
     instructor |-> course.instructor]

\* CourseDetailManageView.put
CourseDetailManageView_put(caller, pk, req) ==
    LET Respond(code) ==
            last' = [op |-> "update_course", caller |-> caller, id |-> pk,
                     code |-> code]
    IN
    IF HasPermission("ADMIN", caller) # "allow"
    THEN /\ last' = [op |-> "update_course", caller |-> caller,
                     code |-> RefusalCode("ADMIN", caller)]
         /\ UNCHANGED courses
    ELSE IF pk \notin DOMAIN courses THEN Respond(404) /\ UNCHANGED courses
    ELSE IF \/ req.course_code = "" \/ req.course_title = ""
            \/ \E c \in DOMAIN courses \ {pk} :
                   courses[c].course_code = req.course_code
    THEN \* serializer.is_valid() is False: blank field, or UniqueValidator
         Respond(400) /\ UNCHANGED courses
    ELSE /\ courses' = [courses EXCEPT ![pk] = CourseSerializerUpdate(@, req)]
         /\ Respond(200)

\* Course.delete() leaving the activity logs of the course as they are.
LogsKeptAfterCourseDelete(pk) == logs

\* Course.delete(): ActivityLog.course is set to NULL.
LogsAfterCourseDelete(pk) ==
    [i \in DOMAIN logs |->
        IF logs[i].course = pk THEN [logs[i] EXCEPT !.course = NoCourse]
        ELSE logs[i]]

\* CourseDetailManageView.delete
CourseDetailManageView_delete(caller, pk) ==
    LET Respond(code) ==
            last' = [op |-> "delete_course", caller |-> caller, id |-> pk,
                     code |-> code]
    IN
    IF HasPermission("ADMIN", caller) # "allow"
    THEN Respond(RefusalCode("ADMIN", caller)) /\ UNCHANGED <<courses, logs>>
    ELSE IF pk \notin DOMAIN courses THEN Respond(404) /\ UNCHANGED <<courses, logs>>
    ELSE /\ courses' = [c \in DOMAIN courses \ {pk} |-> courses[c]]
         /\ logs' = LogsAfterCourseDelete(pk)
         /\ Respond(204)

CourseIds == 1..(MaxCourses + 1)

CourseCreate ==
    \E caller \in users, req \in CourseRequests :
        /\ CourseListView_post(caller, req)
        /\ UNCHANGED <<users, role, inflight, ActivityStore, reports, files,
                       workers, nextReportId>>

CourseUpdate ==
    \E caller \in users, pk \in CourseIds, req \in CourseUpdateRequests :
        /\ CourseDetailManageView_put(caller, pk, req)
        /\ UNCHANGED <<users, role, nextCourseId, inflight, ActivityStore,
                       ReportStore>>

CourseDelete ==
    \E caller \in users, pk \in CourseIds :
        /\ CourseDetailManageView_delete(caller, pk)
        /\ UNCHANGED <<users, role, nextCourseId, inflight, nextLogId, today,
                       ReportStore>>

\* One admin, two instructors with a course and an activity log each, and a
\* course without instructor.
InitCourses ==
    /\ inflight = [h \in {"h1"} |-> Idle]
    /\ users = {"a1", "i1", "i2"}
    /\ role = [u \in {"a1", "i1", "i2"} |-> Role0[u]]
    /\ courses = Courses0
    /\ nextCourseId = 4
    /\ logs = Logs0
    /\ nextLogId = 3
    /\ today = NextDay(Day0)
    /\ reports = EmptyTable
    /\ files = EmptyTable
    /\ syslog = <<>>
    /\ workers = [w \in Workers |-> Idle]
    /\ nextReportId = 1
    /\ last = [op |-> "init"]

\* The administration of users and courses.
NextAudit ==
    \/ UpdateUser \/ DeleteUser
    \/ CourseCreate \/ CourseUpdate \/ CourseDelete

SpecAudit == InitAccounts /\ [][NextAudit]_vars

\* Courses are assigned at creation, users are deleted.
NextUnassign == CourseCreate \/ DeleteUser

SpecUnassign == InitCourses /\ [][NextUnassign]_vars

\* What touches an activity log, its course or its instructor.
NextTaught ==
    \/ Record \/ ViewPut \/ DetailPut
    \/ CourseUpdate \/ CourseDelete \/ DeleteUser

SpecTaught == InitAccounts /\ [][NextTaught]_vars

----------------------------------------------------------------------------
(* Properties of the administration of users and courses *)

AdminOps ==
    {"update_user", "delete_user", "create_course", "update_course",
     "delete_course"}

\* The administrative request of this step took effect.
Succeeded ==
    /\ last'.op \in AdminOps
    /\ \/ last'.code \in {200, 201, 204}
       \/ last'.op = "delete_user" /\ last'.code # 403 /\ last'.target \notin users'

\* C22: every successful administrative creation, update or deletion of a
\* user or course appends exactly one SystemEventLog entry whose actor is the
\* requesting administrator, also when an administrator deletes their own
\* account, and a request that fails appends none.
C22_AdminActionsAreLogged ==
    [][(last'.op \in AdminOps) =>
         IF Succeeded
         THEN /\ Len(syslog') = Len(syslog) + 1
              /\ syslog'[Len(syslog')].actor = last'.caller
         ELSE Len(syslog') = Len(syslog)]_vars

\* C23: deleting a user deletes no course: the courses the user taught
\* persist with the same code and title and without instructor, every other
\* course is unchanged.
C23_CoursesSurviveInstructor ==
    [][(last'.op = "delete_user" /\ users' # users) =>
         (/\ DOMAIN courses' = DOMAIN courses
          /\ \A c \in DOMAIN courses :
                IF courses[c].instructor = last'.target
                THEN /\ courses'[c].course_code = courses[c].course_code
                     /\ courses'[c].course_title = courses[c].course_title
                     /\ courses'[c].instructor = NoUser
                ELSE courses'[c] = courses[c])]_vars

C23_Witness ==
    /\ last.op = "delete_user"
    /\ last.target = "i1"
    /\ "i1" \notin users
    /\ 1 \in DOMAIN courses /\ courses[1].instructor = NoUser
    /\ 4 \in DOMAIN courses /\ courses[4].instructor = "i2"
    /\ courses[2].instructor = "i2"

\* C26: every ActivityLog whose course reference is present refers to a
\* Course whose instructor is the log's own instructor.
C26_LogCourseTaughtByLogInstructor ==
    \A i \in DOMAIN logs :
        (logs[i].course # NoCourse) =>
            (/\ logs[i].course \in DOMAIN courses
             /\ courses[logs[i].course].instructor = logs[i].instructor)

C26_Witness ==
    /\ last.op = "update_course"
    /\ last.code = 200
    /\ \E i \in DOMAIN logs : logs[i].course = last.id
    /\ Cardinality(DOMAIN logs) = 2

\* C28: each Course's instructor is absent or a user whose Profile role is
\* INSTRUCTOR, and course creation answers NotFound and creates nothing for
\* a user that does not exist or has another role.
C28_CourseInstructorIsInstructor ==
    /\ [](\A c \in DOMAIN courses :
            \/ courses[c].instructor = NoUser
            \/ /\ courses[c].instructor \in DOMAIN role
               /\ role[courses[c].instructor] = "INSTRUCTOR")
    /\ [][(/\ last'.op = "create_course"
           /\ last'.caller \in DOMAIN role /\ role[last'.caller] = "ADMIN"
           /\ last'.instructor_id # ""
           /\ ~(/\ last'.instructor_id \in DOMAIN role
                /\ role[last'.instructor_id] = "INSTRUCTOR"))
            => (last'.code = 404 /\ UNCHANGED courses)]_vars

----------------------------------------------------------------------------
(* Properties of generation runs *)

\* The submit request answered last passed the checks of the handler: the
\* generation of its report began.
LastSubmitBeganGeneration ==
    /\ last.op = "submit"
    /\ last.caller \in DOMAIN role /\ role[last.caller] = "ADMIN"
    /\ AllFieldsGiven(last.req)
    /\ date_fromisoformat(last.req.start_date) # ValueError
    /\ date_fromisoformat(last.req.end_date) # ValueError

\* C24: a generation run that ends leaves its Report COMPLETED or FAILED,
\* whichever step raised: a submission whose generation began has a Report in
\* one of the two, and when a run of the worker task is over its Report, if
\* it is still stored, is in one of the two.
C24_RunsEndTerminal ==
    /\ [](LastSubmitBeganGeneration =>
            (/\ last.id \in DOMAIN reports
             /\ reports[last.id].status \in TerminalStatuses))
    /\ [][(/\ last'.op = "task"
           /\ last'.id \in DOMAIN reports'
           /\ \A w \in Workers : workers'[w] = Idle)
            => (reports'[last'.id].status \in TerminalStatuses)]_vars

\* C25: a Report that was deleted stays deleted, whatever a generation run
\* of it that was in progress does afterwards: no row with its id and no
\* artifact of it exists in any later state.
C25_DeletedStaysDeleted ==
    [][\A r \in 1..(nextReportId - 1) :
          (r \notin DOMAIN reports) =>
              (/\ r \notin DOMAIN reports'
               /\ \A f \in DOMAIN files' : f[1] # r)]_vars

====
